---- MODULE Spec2Model ----
(***************************************************************************)
(* Session relay and subprocess supervision of the Claude Code Telegram    *)
(* bridge (src/bot.py).                                                    *)
(*                                                                         *)
(* Handlers are coroutines on one asyncio event loop: a handler runs       *)
(* atomically from one await to the next, and handlers of different        *)
(* updates interleave at their awaits.  Every action below is one such     *)
(* atomic segment.  Session objects live in a heap because handlers keep   *)
(* a reference to the Session they fetched while _sessions[chat_id] may    *)
(* be rebound to another object.                                           *)
(***************************************************************************)
EXTENDS Integers, Sequences, FiniteSets, TLC

None == "None"

\* ---- bounds of the model ----
MaxTasks == 2      \* handler coroutines in flight at once
MaxObjs == 3       \* Session objects alive at once
MaxCalls == 3      \* handler calls issued in one behaviour
MaxChunks == 2     \* chunks of one response

Chats == {1, 2}
Active == {1}     \* the chats whose handlers run in Spec; the others' records are at rest
Handles == {"h1", "h2"}
Prompts == {"p1"}
NewSessionArgs == {FALSE}   \* new_session: no caller passes it, it keeps its default
Tasks == 1..MaxTasks
Objs == 1..MaxObjs

VARIABLES
    sessions,   \* _sessions: chat id -> Session object (0: no entry)
    heap,       \* Session objects: session_id, created_at, message_count, busy, pending_skill
    disk,       \* SESSION_FILE: chat id -> {session_id, created_at, message_count}
    tasks,      \* handler coroutines suspended at an await
    orphans,    \* per chat: child processes still running that no coroutine awaits
    calls,      \* handler calls issued so far
    last,       \* history: what the step just taken did (NoLast: nothing recorded)
    run,        \* one run_claude call with its watchdog, on the monotonic clock
    split,      \* one _split_message call: its arguments, locals and position
    out,        \* one call on the output path: the spawn and its result, the formatting,
                \* or the delivery loop
    recents,    \* _recents: chat id -> the recent-action list
    owner       \* _owner_id and OWNER_FILE, with the history of the updates

relayVars == <<sessions, heap, disk, tasks, orphans, calls, last>>
vars == <<sessions, heap, disk, tasks, orphans, calls, last, run, split, out, recents, owner>>

\* ------------------------------------------------------------------------
\* Session objects and the durable file
\* ------------------------------------------------------------------------

\* Session.__init__
Session(session_id, created_at, message_count) ==
    [session_id |-> session_id, created_at |-> created_at,
     message_count |-> message_count, busy |-> FALSE, pending_skill |-> None]

\* a variant that writes the whole object
to_dict_all(s) ==
    [present |-> TRUE, session_id |-> s.session_id, created_at |-> s.created_at,
     message_count |-> s.message_count, busy |-> s.busy, pending_skill |-> s.pending_skill]

\* Session.to_dict
to_dict(s) ==
    [present |-> TRUE, session_id |-> s.session_id, created_at |-> s.created_at,
     message_count |-> s.message_count]

\* a chat id that is no key of the file
NoRecord == [present |-> FALSE, session_id |-> None, created_at |-> 0, message_count |-> 0]

\* Session.from_dict
from_dict(d) == Session(d.session_id, d.created_at, d.message_count)

\* the persisted fields of a Session object
Fields(s) ==
    [session_id |-> s.session_id, created_at |-> s.created_at,
     message_count |-> s.message_count]

Referenced(o, s, t) == (\E c \in Chats : s[c] = o) \/ (\E k \in Tasks : t[k].obj = o)

HasFree(s, t) == \E o \in Objs : ~Referenced(o, s, t)

\* the object a new Session() gets
NewObj(s, t) == CHOOSE o \in Objs : ~Referenced(o, s, t) /\ \A p \in 1..(o - 1) : Referenced(p, s, t)

\* a variant with one Session for all chats
SharedSessionObj(c) ==
    IF \E k \in Chats : sessions[k] # 0
    THEN sessions[CHOOSE k \in Chats : sessions[k] # 0]
    ELSE NewObj(sessions, tasks)

\* _get_session: the chat's Session, created (not saved) when there is none
GetSessionOk(c) == sessions[c] # 0 \/ HasFree(sessions, tasks)
GetSessionObj(c) == IF sessions[c] # 0 THEN sessions[c] ELSE NewObj(sessions, tasks)
GetSession(c) == [sessions EXCEPT ![c] = GetSessionObj(c)]

\* _save_sessions: full overwrite of the file from _sessions
SaveSessions(s, h) == [c \in Chats |-> IF s[c] = 0 THEN NoRecord ELSE to_dict(h[s[c]])]

\* the new memory: objects nothing refers to any more are reclaimed
Commit(s2, h2, t2) ==
    /\ sessions' = s2
    /\ tasks' = t2
    /\ heap' = [o \in Objs |-> IF Referenced(o, s2, t2) THEN h2[o] ELSE Session(None, 0, 0)]

\* ------------------------------------------------------------------------
\* run_claude
\* ------------------------------------------------------------------------

\* what the child process printed: a JSON object (parsed) or other text
Json(is_error, session_id, result) ==
    [parsed |-> TRUE, is_error |-> is_error, session_id |-> session_id, result |-> result]
Raw(text) == [parsed |-> FALSE, is_error |-> FALSE, session_id |-> None, result |-> text]

Stdouts ==
    {Json(FALSE, h, "txt") : h \in Handles}
    \cup {Json(FALSE, None, "txt"), Json(TRUE, "h2", "txt"),
          Raw("txt"), Raw("")}

\* how the await in run_claude ends: the deadline passes, the watchdog kills
\* the process, or the process exits with a return code and its stdout
Outcomes ==
    {[how |-> "deadline", rc |-> 0, out |-> Raw("")],
     [how |-> "wdkill", rc |-> -9, out |-> Raw("")],
     [how |-> "exit", rc |-> 1, out |-> Raw("")]}
    \cup {[how |-> "exit", rc |-> 0, out |-> j] : j \in Stdouts}

\* a variant that reports a watchdog kill as a timeout
run_claude_kill_times_out(session_id, o) ==
    IF o.how \in {"deadline", "wdkill"}
    THEN [is_error |-> TRUE, timed_out |-> TRUE, result |-> "Timed out", session_id |-> session_id]
    ELSE IF o.rc # 0
    THEN [is_error |-> TRUE, timed_out |-> FALSE, result |-> "err", session_id |-> session_id]
    ELSE IF o.out.parsed
    THEN [is_error |-> o.out.is_error, timed_out |-> FALSE, result |-> o.out.result,
          session_id |-> o.out.session_id]
    ELSE [is_error |-> FALSE, timed_out |-> FALSE, result |-> o.out.result,
          session_id |-> session_id]

\* the dict run_claude returns for resume handle session_id
run_claude(session_id, o) ==
    IF o.how = "deadline"
    THEN [is_error |-> TRUE, timed_out |-> TRUE, result |-> "Timed out", session_id |-> session_id]
    ELSE IF o.rc # 0
    THEN [is_error |-> TRUE, timed_out |-> FALSE, result |-> "err", session_id |-> session_id]
    ELSE IF o.out.parsed
    THEN [is_error |-> o.out.is_error, timed_out |-> FALSE, result |-> o.out.result,
          session_id |-> o.out.session_id]
    ELSE [is_error |-> FALSE, timed_out |-> FALSE, result |-> o.out.result,
          session_id |-> session_id]

\* ------------------------------------------------------------------------
\* Handler coroutines
\* ------------------------------------------------------------------------

\* a coroutine: its locals (chat, the Session it fetched, prompt, new_session,
\* sid), the prompt and resume handle of the invocation it awaits, the number
\* of invocations it has made, the chunks it still has to send, and its two
\* background tasks: the typing indicator it created and the watchdog of the
\* run_claude call it awaits ("none", "running", or "ended": returned or
\* cancelled)
IdleTask ==
    [kind |-> "none", pc |-> "idle", chat |-> 0, obj |-> 0, gated |-> FALSE,
     prompt |-> None, ns |-> FALSE, sid |-> None, argp |-> None, arg |-> None,
     spawned |-> 0, chunks |-> 0, typing |-> "none", watchdog |-> "none"]

NoResult == [is_error |-> FALSE, timed_out |-> FALSE, result |-> "", session_id |-> None]

\* what a step of a coroutine did. op: "retry" (the second invocation was
\* started), "update" (the code after the last invocation ran), "leave" (the
\* coroutine ended); how: it goes on ("continue") or the way it ended; the
\* coroutine's kind, whether it had passed the gate, the invocations it has
\* made; its Session's busy flag after the step, and flag: the busy flag of
\* the Session the chat is bound to then.  For "retry" and "update"
\* also sid and new_session, the prompt and handle of the invocation started
\* last, the dict run_claude returned, whether the Session was written and
\* saved, its persisted fields before and after the step, and how the
\* invocation ended.  For the steps of a compaction ("summary", "replace"),
\* before and after are the fields of the Session the chat is bound to
NoLast ==
    [op |-> "none", how |-> "none", kind |-> "none", gated |-> FALSE, spawned |-> 0,
     busy |-> FALSE, flag |-> FALSE, sid |-> None, ns |-> FALSE, prompt |-> None,
     argp |-> None, arg |-> None, result |-> NoResult, wrote |-> FALSE, saved |-> FALSE,
     before |-> Fields(Session(None, 0, 0)), after |-> Fields(Session(None, 0, 0)),
     typing |-> "none", watchdog |-> "none", outcome |-> "none"]

Quiet == last' = NoLast

\* _get_session(chat_id).busy in memory s, h
ChatBusy(c, s, h) == s[c] # 0 /\ h[s[c]].busy

\* pcs at which the coroutine awaits run_claude
RunPcs == {"run1", "run2", "summary", "fresh"}

\* child processes of chat c that have been spawned and are not terminated
Live(c) == Cardinality({t \in Tasks : tasks[t].chat = c /\ tasks[t].pc \in RunPcs}) + orphans[c]

\* datetime.now(), as a logical clock: the handler calls issued so far
Now == calls

\* handler calls take the first free coroutine slot
FreeSlot(t) == tasks[t] = IdleTask /\ \A k \in 1..(t - 1) : tasks[k] # IdleTask

\* ------------------------------------------------------------------------
\* _relay (message handlers) and _relay_from_callback (button taps): the two
\* bodies are the same statement for statement
\* ------------------------------------------------------------------------

\* sid = None if new_session else session.session_id
ResumeHandle(s, ns) == IF ns THEN None ELSE s.session_id

\* variants of the retry condition: one that does not look at timed_out, one
\* that does not look at sid
RetryAlsoTimeouts(result, sid) == result.is_error /\ sid # None
RetryAlsoFresh(result, sid) == result.is_error /\ ~result.timed_out

\* if result.get("is_error") and sid and not result.get("timed_out")
ShouldRetry(result, sid) == result.is_error /\ sid # None /\ ~result.timed_out

\* result = await run_claude(prompt, session_id=None)
RetryPrompt(prompt) == prompt
\* a variant: the retry resumes the same conversation
RetryWithHandle(sid) == sid

RetryHandle(sid) == None

\* if new_sid:
ShouldUpdate(result) == result.session_id # None

\* "Update session tracking": the body of  if new_sid:
UpdateSession(s, new_sid, ns, t) ==
    [s EXCEPT !.created_at = IF s.session_id = None \/ ns THEN t ELSE @,
              !.session_id = new_sid,
              !.message_count = @ + 1]

\* a variant of cancel() that leaves the task alone
LeaveTask(state) == state

\* Task.cancel(): a running task ends at its await
CancelTask(state) == IF state = "running" THEN "ended" ELSE state

\* run_claude returns with outcome o: the watchdog has returned by itself
\* after its kill, or is cancelled in the finally block
RunReturned(tk, o) ==
    [tk EXCEPT !.watchdog = CancelTask(IF o.how = "wdkill" THEN "ended" ELSE @)]

\* stop_typing.set(); typing_task.cancel()
StopTyping(tk) == [tk EXCEPT !.typing = CancelTask(@)]

\* a variant of the finally block that leaves the flag
KeepBusy(s) == s

\* session.busy = False
ClearBusy(s) == [s EXCEPT !.busy = FALSE]

\* the coroutine leaves: what it was, how it left, and its Session's busy flag
Returned(tk, how, h) ==
    [NoLast EXCEPT !.op = "leave", !.how = how, !.kind = tk.kind, !.gated = tk.gated,
                   !.spawned = tk.spawned, !.busy = h[tk.obj].busy,
                   !.flag = ChatBusy(tk.chat, sessions, h),
                   !.typing = tk.typing, !.watchdog = tk.watchdog]

\* ... through the finally block
Left(tk, how, h) == Returned(StopTyping(tk), how, [h EXCEPT ![tk.obj] = ClearBusy(@)])

\* the finally block of _relay, _relay_from_callback, cmd_compact and ses:compact
Finally(t, tk, how, s2, h2) ==
    LET h3 == [h2 EXCEPT ![tk.obj] = ClearBusy(@)] IN
    /\ Commit(s2, h3, [tasks EXCEPT ![t] = IdleTask])

\* the gate, in memory h: a busy Session gets the notice, otherwise busy is
\* set and the first child process is spawned
RelayGate(t, c, p, ns, h) ==
    /\ FreeSlot(t)
    /\ calls < MaxCalls
    /\ GetSessionOk(c)
    /\ LET o == GetSessionObj(c)
           s == h[o]
           base == [IdleTask EXCEPT !.kind = "relay", !.chat = c, !.obj = o, !.prompt = p,
                                    !.ns = ns]
           sid == ResumeHandle(s, ns)
       IN IF s.busy
          THEN Commit(GetSession(c), h, [tasks EXCEPT ![t] = [base EXCEPT !.pc = "notice"]])
          ELSE Commit(GetSession(c), [h EXCEPT ![o].busy = TRUE],
                      [tasks EXCEPT ![t] =
                          [base EXCEPT !.pc = "run1", !.gated = TRUE, !.sid = sid,
                                       !.argp = p, !.arg = sid, !.spawned = 1,
                                       !.typing = "running", !.watchdog = "running"]])
    /\ calls' = calls + 1
    /\ UNCHANGED <<disk, orphans>>

\* ... called with the memory as it is
RelayCallStep(t, c, p, ns) ==
    /\ RelayGate(t, c, p, ns, heap)
    /\ Quiet

\* ... as a step of the relay alone
RelayCall(t, c, p, ns) ==
    RelayCallStep(t, c, p, ns) /\ UNCHANGED <<run, split, out, recents, owner>>

\* the "still working" notice has been sent: the rejected call returns
BusyNotice(t) ==
    /\ tasks[t].pc = "notice"
    /\ last' = Returned(tasks[t], "rejected", heap)
    /\ Commit(sessions, heap, [tasks EXCEPT ![t] = IdleTask])
    /\ UNCHANGED <<disk, orphans, calls>>
    /\ UNCHANGED <<run, split, out, recents, owner>>

\* what the code after the invocations meets: the durable write fails (-2),
\* the formatting raises (-1), or the response is split into n >= 1 chunks
Fates == {-2, -1} \cup (1..MaxChunks)
SaveFails(fate) == fate = -2
\* a variant in which a failed write is swallowed
RaisesNotOnSave(fate) == fate = -1
Raises(fate) == fate < 0

\* how an invocation ended: "deadline", "wdkill", "exit" with a non-zero
\* code, or exit 0 with output that is JSON ("json") or not ("text")
Ended(o) ==
    IF o.how # "exit" THEN o.how
    ELSE IF o.rc # 0 THEN "exit"
    ELSE IF o.out.parsed THEN "json" ELSE "text"

\* a step of a relay coroutine out of run_claude, as history
RelayEvent(op, how, tk, busy, result, wrote, saved, before, after) ==
    [op |-> op, how |-> how, kind |-> tk.kind, gated |-> tk.gated, spawned |-> tk.spawned,
     busy |-> busy,
     flag |-> IF sessions[tk.chat] = tk.obj THEN busy ELSE ChatBusy(tk.chat, sessions, heap),
     sid |-> tk.sid, ns |-> tk.ns, prompt |-> tk.prompt, argp |-> tk.argp,
     arg |-> tk.arg, result |-> result, wrote |-> wrote, saved |-> saved,
     before |-> before, after |-> after, typing |-> tk.typing, watchdog |-> tk.watchdog,
     outcome |-> "none"]

\* the await in run_claude ends with outcome o and run_claude returns: the
\* retry decision, or the session update, the save, the formatting and the
\* split into chunks
RelayRunReturnStep(t, o, fate) ==
    /\ tasks[t].kind = "relay"
    /\ tasks[t].pc \in {"run1", "run2"}
    /\ LET tk == RunReturned(tasks[t], o)
           result == run_claude(tk.arg, o)
       IN IF tk.pc = "run1" /\ ShouldRetry(result, tk.sid)
          THEN LET tk2 == [tk EXCEPT !.pc = "run2", !.argp = RetryPrompt(tk.prompt),
                                     !.arg = RetryHandle(tk.sid), !.spawned = @ + 1,
                                     !.watchdog = "running"]
                   f == Fields(heap[tk.obj])
               IN /\ fate = 1
                  /\ Commit(sessions, heap, [tasks EXCEPT ![t] = tk2])
                  /\ last' = [RelayEvent("retry", "continue", tk2, heap[tk.obj].busy,
                                         result, FALSE, FALSE, f, f)
                                 EXCEPT !.outcome = Ended(o)]
                  /\ UNCHANGED disk
          ELSE LET s == heap[tk.obj]
                   wrote == ShouldUpdate(result)
                   s2 == IF wrote THEN UpdateSession(s, result.session_id, tk.ns, Now) ELSE s
                   h2 == [heap EXCEPT ![tk.obj] = s2]
                   saved == wrote /\ ~SaveFails(fate)
               IN /\ SaveFails(fate) => wrote
                  /\ disk' = IF saved THEN SaveSessions(sessions, h2) ELSE disk
                  /\ IF Raises(fate)
                     THEN /\ Finally(t, tk, "raise", sessions, h2)
                          /\ last' = [RelayEvent("update", "raise", StopTyping(tk),
                                                 ClearBusy(s2).busy, result, wrote, saved,
                                                 Fields(s), Fields(s2))
                                         EXCEPT !.outcome = Ended(o)]
                     ELSE /\ Commit(sessions, h2,
                                    [tasks EXCEPT ![t] = [tk EXCEPT !.pc = "deliver",
                                                                    !.chunks = fate]])
                          /\ last' = [RelayEvent("update", "continue", tk, s2.busy,
                                                 result, wrote, saved, Fields(s), Fields(s2))
                                         EXCEPT !.outcome = Ended(o)]
    /\ UNCHANGED <<orphans, calls>>

\* ... as a step of the relay alone
RelayRunReturn(t, o, fate) ==
    RelayRunReturnStep(t, o, fate) /\ UNCHANGED <<run, split, out, recents, owner>>

\* one chunk is sent (Markdown, then plain text); ok = FALSE: both sends raise
Deliver(t, ok) ==
    /\ tasks[t].pc = "deliver"
    /\ LET tk == tasks[t]
       IN IF ~ok
          THEN Finally(t, tk, "raise", sessions, heap) /\ last' = Left(tk, "raise", heap)
          ELSE IF tk.chunks > 1
          THEN Commit(sessions, heap, [tasks EXCEPT ![t].chunks = @ - 1]) /\ Quiet
          ELSE Finally(t, tk, "return", sessions, heap) /\ last' = Left(tk, "return", heap)
    /\ UNCHANGED <<disk, orphans, calls>>
    /\ UNCHANGED <<run, split, out, recents, owner>>

\* the handler task is cancelled at its await: the finally block runs; a child
\* process being awaited is not killed by run_claude's finally
Cancel(t) ==
    /\ tasks[t].pc \in RunPcs \cup {"deliver", "creply"}
    /\ Finally(t, tasks[t], "cancel", sessions, heap)
    /\ last' = Left([tasks[t] EXCEPT !.watchdog = CancelTask(@)], "cancel", heap)
    /\ orphans' = [orphans EXCEPT ![tasks[t].chat] = IF tasks[t].pc \in RunPcs THEN @ + 1 ELSE @]
    /\ UNCHANGED <<disk, calls>>
    /\ UNCHANGED <<run, split, out, recents, owner>>

\* a child process nobody awaits exits
OrphanExit(c) ==
    /\ orphans[c] > 0
    /\ orphans' = [orphans EXCEPT ![c] = @ - 1]
    /\ Quiet
    /\ UNCHANGED <<sessions, heap, disk, tasks, calls>>
    /\ UNCHANGED <<run, split, out, recents, owner>>

\* ------------------------------------------------------------------------
\* Session commands: /new, /clear, and the ses:new, ses:clear, sr: buttons
\* ------------------------------------------------------------------------

\* _sessions[chat_id] = Session(): the chat is bound to a new object
Rebind(c) == [sessions EXCEPT ![c] = NewObj([sessions EXCEPT ![c] = 0], tasks)]

\* cmd_new: no look at busy
CmdNew(c) ==
    /\ calls < MaxCalls
    /\ HasFree([sessions EXCEPT ![c] = 0], tasks)
    /\ LET s2 == Rebind(c)
           h2 == [heap EXCEPT ![s2[c]] = Session(None, 0, 0)]
       IN /\ Commit(s2, h2, tasks)
          /\ disk' = SaveSessions(s2, h2)
    /\ calls' = calls + 1
    /\ Quiet
    /\ UNCHANGED orphans
    /\ UNCHANGED <<run, split, out, recents, owner>>

\* cmd_clear: no look at busy
CmdClear(c) ==
    /\ calls < MaxCalls
    /\ LET s2 == [sessions EXCEPT ![c] = 0]
       IN /\ Commit(s2, heap, tasks)
          /\ disk' = SaveSessions(s2, heap)
    /\ calls' = calls + 1
    /\ Quiet
    /\ UNCHANGED orphans
    /\ UNCHANGED <<run, split, out, recents, owner>>

\* handle_callback "ses:new": blocked while the chat's Session is busy
CbNew(c) ==
    /\ calls < MaxCalls
    /\ GetSessionOk(c)
    /\ IF heap[GetSessionObj(c)].busy
       THEN /\ Commit(GetSession(c), heap, tasks)
            /\ UNCHANGED disk
       ELSE /\ HasFree([sessions EXCEPT ![c] = 0], tasks)
            /\ LET s2 == Rebind(c)
                    h2 == [heap EXCEPT ![s2[c]] = Session(None, 0, 0)]
               IN /\ Commit(s2, h2, tasks)
                  /\ disk' = SaveSessions(s2, h2)
    /\ calls' = calls + 1
    /\ Quiet
    /\ UNCHANGED orphans
    /\ UNCHANGED <<run, split, out, recents, owner>>

\* handle_callback "ses:clear": blocked while the chat's Session is busy
CbClear(c) ==
    /\ calls < MaxCalls
    /\ GetSessionOk(c)
    /\ IF heap[GetSessionObj(c)].busy
       THEN /\ Commit(GetSession(c), heap, tasks)
            /\ UNCHANGED disk
       ELSE LET s2 == [sessions EXCEPT ![c] = 0]
            IN /\ Commit(s2, heap, tasks)
               /\ disk' = SaveSessions(s2, heap)
    /\ calls' = calls + 1
    /\ Quiet
    /\ UNCHANGED orphans
    /\ UNCHANGED <<run, split, out, recents, owner>>

\* handle_callback "sr:<id>": history resume, handled before the busy check
CbResume(c, target_sid) ==
    /\ calls < MaxCalls
    /\ GetSessionOk(c)
    /\ LET o == GetSessionObj(c)
           s2 == GetSession(c)
           h2 == [heap EXCEPT ![o].session_id = target_sid, ![o].created_at = Now,
                              ![o].message_count = 0]
       IN /\ Commit(s2, h2, tasks)
          /\ disk' = SaveSessions(s2, h2)
    /\ calls' = calls + 1
    /\ Quiet
    /\ UNCHANGED orphans
    /\ UNCHANGED <<run, split, out, recents, owner>>

\* ------------------------------------------------------------------------
\* Compaction: cmd_compact and the ses:compact button
\* ------------------------------------------------------------------------

\* a variant that compacts whatever the Session holds
CompactAnything(s) == FALSE

\* if not s.session_id
NothingToCompact(s) == s.session_id = None

\* the body shared by both: no handle, nothing to do; else busy is set (not
\* tested) and the summary is asked for under the current handle
CompactStart(t, tk, c) ==
    LET o == GetSessionObj(c)
        s == heap[o]
        base == [tk EXCEPT !.chat = c, !.obj = o]
    IN IF NothingToCompact(s)
       THEN Commit(GetSession(c), heap, [tasks EXCEPT ![t] = [base EXCEPT !.pc = "nothing"]])
       ELSE Commit(GetSession(c), [heap EXCEPT ![o].busy = TRUE],
                   [tasks EXCEPT ![t] =
                       [base EXCEPT !.pc = "summary", !.gated = TRUE, !.sid = s.session_id,
                                    !.argp = "summarize", !.arg = s.session_id, !.spawned = 1,
                                    !.typing = IF tk.kind = "compact" THEN "running" ELSE "none",
                                    !.watchdog = "running"]])

\* cmd_compact up to its first await
CmdCompact(t, c) ==
    /\ FreeSlot(t)
    /\ calls < MaxCalls
    /\ GetSessionOk(c)
    /\ CompactStart(t, [IdleTask EXCEPT !.kind = "compact"], c)
    /\ calls' = calls + 1
    /\ Quiet
    /\ UNCHANGED <<disk, orphans>>
    /\ UNCHANGED <<run, split, out, recents, owner>>

\* handle_callback "ses:compact" up to edit_message_text("Compacting session...")
CbCompact(t, c) ==
    /\ FreeSlot(t)
    /\ calls < MaxCalls
    /\ GetSessionOk(c)
    /\ LET o == GetSessionObj(c)
           base == [IdleTask EXCEPT !.kind = "compact_cb", !.chat = c, !.obj = o]
       IN Commit(GetSession(c), heap,
                 [tasks EXCEPT ![t] =
                     [base EXCEPT !.pc = IF heap[o].busy THEN "notice" ELSE "editing"]])
    /\ calls' = calls + 1
    /\ Quiet
    /\ UNCHANGED <<disk, orphans>>
    /\ UNCHANGED <<run, split, out, recents, owner>>

\* ... and from there on: the Session is fetched again
CbCompactStart(t) ==
    /\ tasks[t].pc = "editing"
    /\ GetSessionOk(tasks[t].chat)
    /\ CompactStart(t, [tasks[t] EXCEPT !.obj = 0], tasks[t].chat)
    /\ Quiet
    /\ UNCHANGED <<disk, orphans, calls>>
    /\ UNCHANGED <<run, split, out, recents, owner>>

\* "No active session to compact." has been sent
CompactNothing(t) ==
    /\ tasks[t].pc = "nothing"
    /\ last' = Returned(tasks[t], "nothing", heap)
    /\ Commit(sessions, heap, [tasks EXCEPT ![t] = IdleTask])
    /\ UNCHANGED <<disk, orphans, calls>>
    /\ UNCHANGED <<run, split, out, recents, owner>>

\* if not summary_text
NoSummary(summary) == summary.result = ""

\* the persisted fields of the Session chat c is bound to
ChatFields(c, s, h) == IF s[c] = 0 THEN Fields(Session(None, 0, 0)) ELSE Fields(h[s[c]])

\* a variant that carries the old count over
NewSessionOldCount(fresh, t) == Session(fresh.session_id, t, 5)

\* new_s = Session(session_id=fresh.get("session_id"), created_at=now,
\* message_count=1)
NewSession(fresh, t) == Session(fresh.session_id, t, 1)

\* the summary run returns: an empty result text ends the compaction, any
\* other starts the seeding run without handle
CompactSummaryReturn(t, o) ==
    /\ tasks[t].pc = "summary"
    /\ LET tk == RunReturned(tasks[t], o)
           summary == run_claude(tk.arg, o)
           tk2 == IF NoSummary(summary)
                  THEN [tk EXCEPT !.pc = "creply"]
                  ELSE [tk EXCEPT !.pc = "fresh", !.argp = "context", !.arg = None,
                                  !.spawned = @ + 1, !.watchdog = "running"]
           f == ChatFields(tk.chat, sessions, heap)
       IN /\ Commit(sessions, heap, [tasks EXCEPT ![t] = tk2])
          /\ last' = [RelayEvent("summary", "continue", tk2, heap[tk.obj].busy, summary,
                                 FALSE, FALSE, f, f)
                         EXCEPT !.outcome = Ended(o)]
    /\ UNCHANGED <<disk, orphans, calls>>
    /\ UNCHANGED <<run, split, out, recents, owner>>

\* the seeding run returns: the chat is bound to a new Session and saved
CompactFreshReturn(t, o) ==
    /\ tasks[t].pc = "fresh"
    /\ HasFree([sessions EXCEPT ![tasks[t].chat] = 0], tasks)
    /\ LET tk == RunReturned(tasks[t], o)
           fresh == run_claude(tk.arg, o)
           s2 == Rebind(tk.chat)
           new_s == NewSession(fresh, Now)
           h2 == [heap EXCEPT ![s2[tk.chat]] = new_s]
       IN /\ Commit(s2, h2, [tasks EXCEPT ![t] = [tk EXCEPT !.pc = "creply"]])
          /\ disk' = SaveSessions(s2, h2)
          /\ last' = [RelayEvent("replace", "continue", tk, heap[tk.obj].busy, fresh,
                                 TRUE, SaveSessions(s2, h2)[tk.chat] = to_dict(new_s),
                                 ChatFields(tk.chat, sessions, heap),
                                 ChatFields(tk.chat, s2, h2))
                         EXCEPT !.outcome = Ended(o)]
    /\ UNCHANGED <<orphans, calls>>
    /\ UNCHANGED <<run, split, out, recents, owner>>

\* the closing message has been sent: the finally block clears busy
CompactReply(t, ok) ==
    /\ tasks[t].pc = "creply"
    /\ Finally(t, tasks[t], IF ok THEN "return" ELSE "raise", sessions, heap)
    /\ last' = Left(tasks[t], IF ok THEN "return" ELSE "raise", heap)
    /\ UNCHANGED <<disk, orphans, calls>>
    /\ UNCHANGED <<run, split, out, recents, owner>>

\* ------------------------------------------------------------------------
\* The system
\* ------------------------------------------------------------------------

\* no run in progress
RunOff ==
    [pc |-> "off", timeout |-> 0, clock |-> 0, cpu |-> 0, proc |-> "none", rc |-> 0,
     wd |-> "none", last_cpu |-> 0, stale_since |-> -1, same |-> 0, timer_run |-> 0,
     result |-> "none", after |-> 0]

\* no _split_message call in progress
SplitOff ==
    [pc |-> "off", orig |-> <<>>, limit |-> 0, text |-> <<>>, chunks |-> <<>>,
     seps |-> <<>>, before |-> 0]

\* no call on the output path in progress
OutOff ==
    [fn |-> "off", pc |-> "off", prompt |-> None, sid |-> None, model |-> None,
     skip |-> None, cmd |-> <<>>, rc |-> 0, stdout |-> <<>>, stderr |-> <<>>,
     result |-> [is_error |-> FALSE, result |-> <<>>, session_id |-> None],
     data |-> [keys |-> {}, is_error |-> FALSE, result |-> <<>>, cost_usd |-> 0,
               num_turns |-> 0, duration_ms |-> 0],
     text |-> <<>>, chunks |-> <<>>, i |-> 0, log |-> <<>>]

\* _recents when no action has been recorded
RecentsOff == [c \in Chats |-> <<>>]

\* _owner_id and OWNER_FILE (0: None, no file), with the history of the
\* updates: the first id recorded, the number of updates handled, the user
\* of the last one and the reply of the auth wrapper
Owner(id) == [id |-> id, file |-> id, first |-> id, n |-> 0, uid |-> 0, reply |-> "none"]
OwnerOff == Owner(0)

\* the file as _load_sessions finds it
InitRecords == {NoRecord, to_dict(Session("h1", 0, 1))}

\* _load_sessions: one Session object per record of the file
LoadObj(d, c) ==
    IF d[c].present THEN Cardinality({k \in Chats : k <= c /\ d[k].present}) ELSE 0

Init ==
    /\ disk \in [Chats -> InitRecords]
    /\ \A c \in Chats \ Active : disk[c].present
    /\ sessions = [c \in Chats |-> LoadObj(disk, c)]
    /\ heap = [o \in Objs |->
                 IF \E c \in Chats : LoadObj(disk, c) = o
                 THEN from_dict(disk[CHOOSE c \in Chats : LoadObj(disk, c) = o])
                 ELSE Session(None, 0, 0)]
    /\ tasks = [t \in Tasks |-> IdleTask]
    /\ orphans = [c \in Chats |-> 0]
    /\ calls = 0
    /\ last = NoLast
    /\ run = RunOff
    /\ split = SplitOff
    /\ out = OutOff
    /\ recents = RecentsOff
    /\ owner = OwnerOff

Next ==
    \/ \E t \in Tasks, c \in Active, p \in Prompts, ns \in NewSessionArgs :
          RelayCall(t, c, p, ns)
    \/ \E t \in Tasks : BusyNotice(t)
    \/ \E t \in Tasks, o \in Outcomes, fate \in Fates : RelayRunReturn(t, o, fate)
    \/ \E t \in Tasks, ok \in BOOLEAN : Deliver(t, ok)
    \/ \E t \in Tasks : Cancel(t)
    \/ \E c \in Active : OrphanExit(c)
    \/ \E c \in Active : CmdNew(c)
    \/ \E c \in Active : CmdClear(c)
    \/ \E c \in Active : CbNew(c)
    \/ \E c \in Active : CbClear(c)
    \/ \E c \in Active, h \in Handles : CbResume(c, h)
    \/ \E t \in Tasks, c \in Active : CmdCompact(t, c)
    \/ \E t \in Tasks, c \in Active : CbCompact(t, c)
    \/ \E t \in Tasks : CbCompactStart(t)
    \/ \E t \in Tasks : CompactNothing(t)
    \/ \E t \in Tasks, o \in Outcomes : CompactSummaryReturn(t, o)
    \/ \E t \in Tasks, o \in Outcomes : CompactFreshReturn(t, o)
    \/ \E t \in Tasks, ok \in BOOLEAN : CompactReply(t, ok)

Spec == Init /\ [][Next]_vars

\* ------------------------------------------------------------------------
\* Two chats: relays and /clear on both chats of the file
\* ------------------------------------------------------------------------

\* how an invocation ends here: a success that reports handle h1 or h2, or
\* a non-zero exit
ChatOutcomes ==
    {[how |-> "exit", rc |-> 1, out |-> Raw("")]}
    \cup {[how |-> "exit", rc |-> 0, out |-> Json(FALSE, h, "txt")] : h \in Handles}

\* the durable write fails, or the response is one chunk
ChatFates == {-2, 1}

\* as Init, with any of the two chats in the file or not
InitChats ==
    /\ disk \in [Chats -> InitRecords]
    /\ sessions = [c \in Chats |-> LoadObj(disk, c)]
    /\ heap = [o \in Objs |->
                 IF \E c \in Chats : LoadObj(disk, c) = o
                 THEN from_dict(disk[CHOOSE c \in Chats : LoadObj(disk, c) = o])
                 ELSE Session(None, 0, 0)]
    /\ tasks = [t \in Tasks |-> IdleTask]
    /\ orphans = [c \in Chats |-> 0]
    /\ calls = 0
    /\ last = NoLast
    /\ run = RunOff
    /\ split = SplitOff
    /\ out = OutOff
    /\ recents = RecentsOff
    /\ owner = OwnerOff

NextChats ==
    \/ \E t \in Tasks, c \in Chats, p \in Prompts, ns \in NewSessionArgs :
          RelayCall(t, c, p, ns)
    \/ \E t \in Tasks : BusyNotice(t)
    \/ \E t \in Tasks, o \in ChatOutcomes, fate \in ChatFates : RelayRunReturn(t, o, fate)
    \/ \E t \in Tasks : Deliver(t, TRUE)
    \/ \E c \in Chats : CmdClear(c)
    \/ \E c \in Chats : CbClear(c)

SpecChats == InitChats /\ [][NextChats]_vars

\* ------------------------------------------------------------------------
\* run_claude with its watchdog, in time: _cpu_watchdog samples the child's
\* CPU ticks after every asyncio.sleep(10) and kills a stale child; wait_for
\* kills it at the deadline.  Time is in seconds of time.monotonic() since
\* the spawn.
\* ------------------------------------------------------------------------

STALE_TIMEOUT == 60     \* stale_limit
SampleInterval == 10    \* await asyncio.sleep(10)
MaxJitter == 1          \* how much later than asked a sleep may end
Deadlines == {50, 120}  \* the timeouts run_claude is called with

\* a variant of the loop body without its else branch: a changed reading
\* leaves the timer running
PassKeepsTimer(last_cpu, stale_since, cpu, t) ==
    IF cpu = last_cpu
    THEN IF stale_since = -1
         THEN [last_cpu |-> last_cpu, stale_since |-> t, kill |-> FALSE]
         ELSE [last_cpu |-> last_cpu, stale_since |-> stale_since,
               kill |-> t - stale_since > STALE_TIMEOUT]
    ELSE IF stale_since = -1
         THEN [last_cpu |-> cpu, stale_since |-> -1, kill |-> FALSE]
         ELSE [last_cpu |-> cpu, stale_since |-> stale_since,
               kill |-> t - stale_since > STALE_TIMEOUT]

\* one pass of the watchdog's loop body after its sleep: reading cpu at time t
\* with locals last_cpu and stale_since (-1: None)
WatchdogPass(last_cpu, stale_since, cpu, t) ==
    IF cpu = last_cpu
    THEN IF stale_since = -1
         THEN [last_cpu |-> last_cpu, stale_since |-> t, kill |-> FALSE]
         ELSE [last_cpu |-> last_cpu, stale_since |-> stale_since,
               kill |-> t - stale_since > STALE_TIMEOUT]
    ELSE [last_cpu |-> cpu, stale_since |-> -1, kill |-> FALSE]

\* run_claude has spawned the child and created the watchdog task, which
\* has taken its first reading and sleeps
InitWatchdog ==
    /\ disk = [c \in Chats |-> to_dict(Session("h1", 0, 1))]
    /\ sessions = [c \in Chats |-> LoadObj(disk, c)]
    /\ heap = [o \in Objs |->
                 IF \E c \in Chats : LoadObj(disk, c) = o THEN from_dict(disk[1])
                 ELSE Session(None, 0, 0)]
    /\ tasks = [t \in Tasks |-> IdleTask]
    /\ orphans = [c \in Chats |-> 0]
    /\ calls = 0
    /\ last = NoLast
    /\ \E timeout \in Deadlines, c0 \in 0..1 :
          run = [RunOff EXCEPT !.pc = "awaiting", !.timeout = timeout, !.cpu = c0,
                               !.proc = "running", !.wd = "sleeping", !.last_cpu = c0,
                               !.same = 1]
    /\ split = SplitOff
    /\ out = OutOff
    /\ recents = RecentsOff
    /\ owner = OwnerOff

\* the watchdog's sleep ends d seconds late, the child having used dc more
\* ticks; the watchdog reads them and clears, starts or checks its timer.
\* same: the latest readings in a row that are equal; timer_run: the
\* readings taken since the timer was started
WatchdogSample(d, dc) ==
    /\ run.pc = "awaiting" /\ run.proc = "running" /\ run.wd = "sleeping"
    /\ run.clock + SampleInterval + d <= run.timeout
    /\ LET t == run.clock + SampleInterval + d
           cpu == run.cpu + dc
           w == WatchdogPass(run.last_cpu, run.stale_since, cpu, t)
       IN run' = [run EXCEPT !.clock = t, !.cpu = cpu, !.last_cpu = w.last_cpu,
                             !.stale_since = w.stale_since,
                             !.proc = IF w.kill THEN "killed by watchdog" ELSE @,
                             !.rc = IF w.kill THEN -9 ELSE @,
                             !.wd = IF w.kill THEN "returned" ELSE @,
                             !.same = IF dc = 0 THEN @ + 1 ELSE 1,
                             !.timer_run = IF w.stale_since = -1 THEN 0 ELSE @ + 1]
    /\ UNCHANGED <<relayVars, split, out, recents, owner>>

\* the child exits by itself with return code rc
ProcessExits(rc) ==
    /\ run.pc = "awaiting" /\ run.proc = "running"
    /\ run' = [run EXCEPT !.proc = "exited", !.rc = rc]
    /\ UNCHANGED <<relayVars, split, out, recents, owner>>

\* the watchdog wakes before run_claude resumes and finds the child gone
WatchdogSeesExit ==
    /\ run.pc = "awaiting" /\ run.proc = "exited" /\ run.wd = "sleeping"
    /\ run' = [run EXCEPT !.wd = "returned"]
    /\ UNCHANGED <<relayVars, split, out, recents, owner>>

\* communicate() is done: run_claude cancels the watchdog and returns
RunReturns ==
    /\ run.pc = "awaiting" /\ run.proc \in {"exited", "killed by watchdog"}
    /\ run' = [run EXCEPT !.pc = "returned",
                          !.wd = IF @ = "sleeping" THEN "cancelled" ELSE @,
                          !.result = IF run.rc # 0 THEN "error" ELSE "ok"]
    /\ UNCHANGED <<relayVars, split, out, recents, owner>>

\* a variant of the except branch without proc.kill()
TimedOutNoKill(r) ==
    [r EXCEPT !.pc = "returned", !.clock = r.timeout,
              !.wd = IF @ = "sleeping" THEN "cancelled" ELSE @,
              !.result = "timeout", !.after = r.timeout]

\* except asyncio.TimeoutError: proc.kill(), the timed_out dict with
\* "Timed out after {timeout}s", and the finally block
TimedOut(r) ==
    [r EXCEPT !.pc = "returned", !.clock = r.timeout,
              !.proc = "killed at deadline", !.rc = -9,
              !.wd = IF @ = "sleeping" THEN "cancelled" ELSE @,
              !.result = "timeout", !.after = r.timeout]

\* asyncio.TimeoutError: run_claude kills the child, cancels the watchdog and
\* returns the timed_out dict
DeadlinePasses ==
    /\ run.pc = "awaiting" /\ run.proc = "running"
    /\ run.timeout <= run.clock + SampleInterval + MaxJitter
    /\ run' = TimedOut(run)
    /\ UNCHANGED <<relayVars, split, out, recents, owner>>

NextWatchdog ==
    \/ \E d \in 0..MaxJitter, dc \in 0..1 : WatchdogSample(d, dc)
    \/ \E rc \in 0..1 : ProcessExits(rc)
    \/ WatchdogSeesExit
    \/ RunReturns
    \/ DeadlinePasses

SpecWatchdog == InitWatchdog /\ [][NextWatchdog]_vars

\* ------------------------------------------------------------------------
\* A relay with its run_claude calls in time: the gate, each invocation
\* under its deadline and its watchdog, the delivery and the finally block
\* ------------------------------------------------------------------------

LiveDeadline == 80    \* the timeout of the calls, in seconds of the model
MaxLiveCalls == 2     \* handler calls issued in one behaviour of SpecLive

\* how an invocation ends here, and what the code after it meets
LiveOutcomes ==
    ChatOutcomes \cup {o \in Outcomes : o.how \in {"deadline", "wdkill"}}
LiveFates == {-1, 1}

\* run_claude has spawned the child and created the watchdog task
Started(timeout) ==
    [RunOff EXCEPT !.pc = "awaiting", !.timeout = timeout, !.proc = "running",
                   !.wd = "sleeping", !.same = 1]

\* the outcomes of the await with which the timed call r has returned
OutcomesOf(r) ==
    {o \in LiveOutcomes :
        IF r.result = "timeout" THEN o.how = "deadline"
        ELSE IF r.proc = "killed by watchdog" THEN o.how = "wdkill"
        ELSE o.how = "exit" /\ (o.rc = 0) = (r.rc = 0)}

\* a relay call; one that passes the gate starts its first invocation
LiveRelayCall(t, c, p) ==
    /\ calls < MaxLiveCalls
    /\ RelayCallStep(t, c, p, FALSE)
    /\ run' = IF tasks'[t].pc = "run1" THEN Started(LiveDeadline) ELSE run
    /\ UNCHANGED <<split, out, recents, owner>>

\* run_claude has returned to the relay, which retries (a second
\* invocation starts) or goes on
LiveRunReturn(t, o, fate) ==
    /\ run.pc = "returned"
    /\ o \in OutcomesOf(run)
    /\ RelayRunReturnStep(t, o, fate)
    /\ run' = IF tasks'[t].pc = "run2" THEN Started(LiveDeadline) ELSE RunOff
    /\ UNCHANGED <<split, out, recents, owner>>

NextLive ==
    \/ \E t \in Tasks, c \in Active, p \in Prompts : LiveRelayCall(t, c, p)
    \/ \E t \in Tasks : BusyNotice(t)
    \/ \E dc \in 0..1 : WatchdogSample(0, dc)
    \/ \E rc \in 0..1 : ProcessExits(rc)
    \/ WatchdogSeesExit
    \/ RunReturns
    \/ DeadlinePasses
    \/ \E t \in Tasks, o \in LiveOutcomes, fate \in LiveFates : LiveRunReturn(t, o, fate)
    \/ \E t \in Tasks, ok \in BOOLEAN : Deliver(t, ok)

\* the event loop runs every coroutine that is ready: timers fire (the
\* watchdog's sleep, the deadline of wait_for), a finished communicate()
\* resumes run_claude, a returned run_claude resumes the relay, and the
\* sends to Telegram complete or raise; whether the child ever exits by
\* itself is left open
LiveFairness ==
    /\ WF_vars(\E dc \in 0..1 : WatchdogSample(0, dc))
    /\ WF_vars(RunReturns)
    /\ WF_vars(DeadlinePasses)
    /\ WF_vars(\E t \in Tasks, o \in LiveOutcomes, fate \in LiveFates :
                   LiveRunReturn(t, o, fate))
    /\ WF_vars(\E t \in Tasks, ok \in BOOLEAN : Deliver(t, ok))
    /\ WF_vars(\E t \in Tasks : BusyNotice(t))

SpecLive == Init /\ [][NextLive]_vars /\ LiveFairness

\* ------------------------------------------------------------------------
\* _split_message(text, limit): texts are sequences of characters
\* ------------------------------------------------------------------------

MaxLen == 6        \* length of the text to split
MaxLimit == 5      \* the limit
MaxCuts == 4       \* passes through the cutting loop (it need not end)

Chars == {"a", " ", "\n"}
Texts == UNION {[1..n -> Chars] : n \in 0..MaxLen}

\* text[a:] and text[:b], 0-based as in Python
From(text, a) == SubSeq(text, a + 1, Len(text))
UpTo(text, b) == SubSeq(text, 1, b)

\* text.rfind(sub, 0, end): the highest index at which sub occurs inside
\* text[0:end], or -1
rfind(text, sub, end) ==
    LET e == IF end < Len(text) THEN end ELSE Len(text)
        at == {i \in 0..(e - Len(sub)) : \A k \in 1..Len(sub) : text[i + k] = sub[k]}
    IN IF at = {} THEN -1 ELSE CHOOSE i \in at : \A j \in at : j <= i

\* a variant of lstrip that strips blanks too
lstrip_blank(text) ==
    LET keep == {i \in 1..Len(text) : text[i] \notin {"\n", " "}}
    IN IF keep = {} THEN <<>>
       ELSE From(text, (CHOOSE i \in keep : \A j \in keep : i <= j) - 1)

\* text.lstrip("\n")
lstrip(text) ==
    LET keep == {i \in 1..Len(text) : text[i] # "\n"}
    IN IF keep = {} THEN <<>>
       ELSE From(text, (CHOOSE i \in keep : \A j \in keep : i <= j) - 1)

\* a variant of the hard cut, one character further
HardCutLong(limit) == limit + 1

\* cut = limit
HardCut(limit) == limit

\* the ladder: a paragraph break, a line break, a blank, each taken only at
\* limit // 4 or later, else the hard cut
Cut(text, limit) ==
    LET c1 == rfind(text, <<"\n", "\n">>, limit)
        c2 == IF c1 < limit \div 4 THEN rfind(text, <<"\n">>, limit) ELSE c1
        c3 == IF c2 < limit \div 4 THEN rfind(text, <<" ">>, limit) ELSE c2
    IN IF c3 < limit \div 4 THEN HardCut(limit) ELSE c3

\* the call starts with any text and limit
InitSplit ==
    /\ disk = [c \in Chats |-> to_dict(Session("h1", 0, 1))]
    /\ sessions = [c \in Chats |-> LoadObj(disk, c)]
    /\ heap = [o \in Objs |->
                 IF \E c \in Chats : LoadObj(disk, c) = o THEN from_dict(disk[1])
                 ELSE Session(None, 0, 0)]
    /\ tasks = [t \in Tasks |-> IdleTask]
    /\ orphans = [c \in Chats |-> 0]
    /\ calls = 0
    /\ last = NoLast
    /\ run = RunOff
    /\ out = OutOff
    /\ recents = RecentsOff
    /\ owner = OwnerOff
    /\ \E text \in Texts, limit \in 1..MaxLimit :
          split = [SplitOff EXCEPT !.pc = "start", !.orig = text, !.limit = limit,
                                   !.text = text]

\* if len(text) <= limit: return [text]
SplitShort ==
    /\ split.pc = "start" /\ Len(split.text) <= split.limit
    /\ split' = [split EXCEPT !.pc = "done", !.chunks = <<split.text>>]
    /\ UNCHANGED <<relayVars, run, out, recents, owner>>

\* chunks = []
SplitLong ==
    /\ split.pc = "start" /\ Len(split.text) > split.limit
    /\ split' = [split EXCEPT !.pc = "loop"]
    /\ UNCHANGED <<relayVars, run, out, recents, owner>>

\* the while condition is false: return chunks
SplitEmpty ==
    /\ split.pc = "loop" /\ split.text = <<>>
    /\ split' = [split EXCEPT !.pc = "done"]
    /\ UNCHANGED <<relayVars, run, out, recents, owner>>

\* the rest fits: it is the last chunk
SplitLast ==
    /\ split.pc = "loop" /\ split.text # <<>> /\ Len(split.text) <= split.limit
    /\ split' = [split EXCEPT !.pc = "done", !.chunks = Append(@, split.text)]
    /\ UNCHANGED <<relayVars, run, out, recents, owner>>

\* one cut: the chunk before it, and the rest without its leading newlines.
\* seps: how many newlines each cut dropped; before: len(text) before it
SplitCut ==
    /\ split.pc = "loop" /\ Len(split.text) > split.limit
    /\ Len(split.chunks) < MaxCuts
    /\ LET cut == Cut(split.text, split.limit)
           rest == lstrip(From(split.text, cut))
       IN split' = [split EXCEPT !.chunks = Append(@, UpTo(split.text, cut)),
                                 !.text = rest,
                                 !.seps = Append(@, Len(split.text) - cut - Len(rest)),
                                 !.before = Len(split.text)]
    /\ UNCHANGED <<relayVars, run, out, recents, owner>>

NextSplit == SplitShort \/ SplitLong \/ SplitEmpty \/ SplitLast \/ SplitCut

SpecSplit == InitSplit /\ [][NextSplit]_vars

\* ------------------------------------------------------------------------
\* The output path: the argument vector and the result of run_claude,
\* _format_result, and the delivery loop of _relay
\* ------------------------------------------------------------------------

MaxStream == 2     \* bytes the child writes to stdout and to stderr
MaxParts == 3      \* chunks of one response in the delivery loop

CLAUDE_BIN == "claude"

\* the prompts, resume handles and settings of a call; "" is a string that
\* is there and empty
OutPrompts == {"p1", "two words"}
OutHandles == {None, "h1"}
Models == {None, "", "opus"}
SkipValues == {None, "0", "1"}

\* what the child can write: a letter, a blank, a byte that is no UTF-8, and
\* the text of a JSON object
OutBytes == {"a", " ", "0xFF", "{}"}
Streams == UNION {[1..n -> OutBytes] : n \in 0..MaxStream}

\* the truth value Python gives a string or None
Truthy(x) == x # None /\ x # ""

\* a variant that puts the model before the resume handle
CmdModelFirst(prompt, session_id, model, skip) ==
    <<CLAUDE_BIN, "-p", prompt, "--output-format", "json">>
    \o (IF Truthy(model) THEN <<"--model", model>> ELSE <<>>)
    \o (IF Truthy(session_id) THEN <<"--resume", session_id>> ELSE <<>>)
    \o (IF skip = "1" THEN <<"--dangerously-skip-permissions">> ELSE <<>>)

\* cmd, as run_claude builds it
Cmd(prompt, session_id, model, skip) ==
    <<CLAUDE_BIN, "-p", prompt, "--output-format", "json">>
    \o (IF Truthy(session_id) THEN <<"--resume", session_id>> ELSE <<>>)
    \o (IF Truthy(model) THEN <<"--model", model>> ELSE <<>>)
    \o (IF skip = "1" THEN <<"--dangerously-skip-permissions">> ELSE <<>>)

\* bytes.decode() raises UnicodeDecodeError on a byte that is no UTF-8
Decodable(bytes) == \A i \in 1..Len(bytes) : bytes[i] # "0xFF"

\* str.strip(): leading and trailing whitespace removed
RECURSIVE strip(_)
strip(text) ==
    IF text = <<>> THEN <<>>
    ELSE IF Head(text) = " " THEN strip(Tail(text))
    ELSE IF text[Len(text)] = " " THEN strip(SubSeq(text, 1, Len(text) - 1))
    ELSE text

\* f"Exit code {proc.returncode}"
ExitCodeText(rc) == <<"Exit code ", rc>>

\* Python's  a or b
Or(a, b) == IF a # <<>> THEN a ELSE b

\* json.loads(raw) succeeds: raw is a JSON text
IsJson(raw) == strip(raw) = <<"{}">>

\* the dict json.loads gives for "{}", read with .get
EmptyDict == [is_error |-> FALSE, result |-> <<>>, session_id |-> None]

\* create_subprocess_exec(*cmd)
Spawn ==
    /\ out.fn = "run" /\ out.pc = "start"
    /\ out' = [out EXCEPT !.pc = "awaiting",
                          !.cmd = Cmd(out.prompt, out.sid, out.model, out.skip)]
    /\ UNCHANGED <<relayVars, run, split, recents, owner>>

\* the child exits with rc, having written stdout and stderr: the code of
\* run_claude after the await
ProcessEnds(rc, stdout, stderr) ==
    /\ out.fn = "run" /\ out.pc = "awaiting"
    /\ LET ended == [out EXCEPT !.rc = rc, !.stdout = stdout, !.stderr = stderr]
           raw == stdout
       IN out' =
            IF ~Decodable(stdout) THEN [ended EXCEPT !.pc = "raised"]
            ELSE IF rc # 0
            THEN IF ~Decodable(stderr) THEN [ended EXCEPT !.pc = "raised"]
                 ELSE [ended EXCEPT !.pc = "returned",
                          !.result = [is_error |-> TRUE,
                                      result |-> Or(strip(stderr),
                                                    Or(strip(raw), ExitCodeText(rc))),
                                      session_id |-> out.sid]]
            ELSE IF IsJson(raw)
            THEN [ended EXCEPT !.pc = "returned", !.result = EmptyDict]
            ELSE [ended EXCEPT !.pc = "returned",
                     !.result = [is_error |-> FALSE, result |-> strip(raw),
                                 session_id |-> out.sid]]
    /\ UNCHANGED <<relayVars, run, split, recents, owner>>

\* ---- _format_result ----

\* the keys a result dict may or may not have
DataKeys == {"is_error", "result", "cost_usd", "num_turns", "duration_ms"}

\* what a key that is missing reads as below
Defaults ==
    [keys |-> {}, is_error |-> FALSE, result |-> <<>>, cost_usd |-> 0, num_turns |-> 0,
     duration_ms |-> 0]

\* the result dicts: any set of keys, with a false or true is_error, an
\* empty or non-empty result, and zero or positive numbers
FormatData ==
    {d \in [keys : SUBSET DataKeys, is_error : BOOLEAN, result : {<<>>, <<"txt">>},
             cost_usd : {0, 5}, num_turns : {0, 3}, duration_ms : {0, 1500}] :
        \A k \in DataKeys \ d.keys : d[k] = Defaults[k]}

\* data.get(key, default)
Get(data, key, default) == IF key \in data.keys THEN data[key] ELSE default

ErrorMarker == "Error:\n"
UnknownError == <<"unknown error">>
DoneNoOutput == <<"(done - no output)">>

\* f"${cost_usd:.4f}", f"{num_turns} turn(s)", f"{duration_ms / 1000:.1f}s"
CostText(v) == IF v = 5 THEN "$5.0000" ELSE "$0.0000"
TurnsText(v) == IF v = 3 THEN "3 turn(s)" ELSE "0 turn(s)"
SecsText(v) == IF v = 1500 THEN "1.5s" ELSE "0.0s"

\* meta: one entry for each number that is there and not zero
Meta(data) ==
    (IF Get(data, "cost_usd", 0) # 0 THEN <<CostText(data.cost_usd)>> ELSE <<>>)
    \o (IF Get(data, "num_turns", 0) # 0 THEN <<TurnsText(data.num_turns)>> ELSE <<>>)
    \o (IF Get(data, "duration_ms", 0) # 0 THEN <<SecsText(data.duration_ms)>> ELSE <<>>)

\* ' | '.join(meta)
RECURSIVE Join(_)
Join(meta) ==
    IF Len(meta) <= 1 THEN meta ELSE <<Head(meta), " | ">> \o Join(Tail(meta))

\* _format_result: the display text, as the sequence of its pieces
format_result(data) ==
    IF Get(data, "is_error", FALSE)
    THEN <<ErrorMarker>> \o Get(data, "result", UnknownError)
    ELSE LET result == Get(data, "result", <<>>) IN
         IF result = <<>> THEN DoneNoOutput
         ELSE IF Meta(data) # <<>> THEN result \o <<"\n[">> \o Join(Meta(data)) \o <<"]">>
         ELSE result

\* response = _format_result(result)
Format ==
    /\ out.fn = "format" /\ out.pc = "start"
    /\ out' = [out EXCEPT !.pc = "formatted", !.text = format_result(out.data)]
    /\ UNCHANGED <<relayVars, run, split, recents, owner>>

\* ---- the delivery loop ----

\* a variant that sends the plain text after every Markdown send
AlwaysPlain(ok) == "plain"

\* try: reply_text(chunk, parse_mode="Markdown"); except Exception: the
\* plain send
AfterMarkdown(ok) == IF ok THEN "next" ELSE "plain"

\* the loop goes on with the next chunk, or ends
NextChunk(o) ==
    [o EXCEPT !.i = @ + 1, !.pc = IF o.i < Len(o.chunks) THEN "markdown" ELSE "done"]

\* await reply_text(chunk, parse_mode="Markdown"): accepted or rejected
SendMarkdown(ok) ==
    /\ out.fn = "deliver" /\ out.pc = "markdown"
    /\ LET sent == [out EXCEPT !.log = Append(@, [i |-> out.i, chunk |-> out.chunks[out.i],
                                                   mode |-> "Markdown", ok |-> ok])]
       IN out' = IF AfterMarkdown(ok) = "next" THEN NextChunk(sent)
                 ELSE [sent EXCEPT !.pc = "plain"]
    /\ UNCHANGED <<relayVars, run, split, recents, owner>>

\* await reply_text(chunk): an exception of this send leaves the loop
SendPlain(ok) ==
    /\ out.fn = "deliver" /\ out.pc = "plain"
    /\ LET sent == [out EXCEPT !.log = Append(@, [i |-> out.i, chunk |-> out.chunks[out.i],
                                                   mode |-> "plain", ok |-> ok])]
       IN out' = IF ok THEN NextChunk(sent) ELSE [sent EXCEPT !.pc = "raised"]
    /\ UNCHANGED <<relayVars, run, split, recents, owner>>

\* the chunk lists _split_message can return: one chunk or more
ChunkLists == UNION {[1..n -> {"x", "y"}] : n \in 1..MaxParts}

InitOutput ==
    /\ disk = [c \in Chats |-> to_dict(Session("h1", 0, 1))]
    /\ sessions = [c \in Chats |-> LoadObj(disk, c)]
    /\ heap = [o \in Objs |->
                 IF \E c \in Chats : LoadObj(disk, c) = o THEN from_dict(disk[1])
                 ELSE Session(None, 0, 0)]
    /\ tasks = [t \in Tasks |-> IdleTask]
    /\ orphans = [c \in Chats |-> 0]
    /\ calls = 0
    /\ last = NoLast
    /\ run = RunOff
    /\ split = SplitOff
    /\ recents = RecentsOff
    /\ owner = OwnerOff
    /\ \/ \E p \in OutPrompts, h \in OutHandles, m \in Models, k \in SkipValues :
             out = [OutOff EXCEPT !.fn = "run", !.pc = "start", !.prompt = p, !.sid = h,
                                  !.model = m, !.skip = k]
       \/ \E d \in FormatData :
             out = [OutOff EXCEPT !.fn = "format", !.pc = "start", !.data = d]
       \/ \E chunks \in ChunkLists :
             out = [OutOff EXCEPT !.fn = "deliver", !.pc = "markdown", !.chunks = chunks,
                                  !.i = 1]

NextOutput ==
    \/ Spawn
    \/ \E rc \in {0, 1}, stdout \in Streams, stderr \in Streams :
          ProcessEnds(rc, stdout, stderr)
    \/ Format
    \/ \E ok \in BOOLEAN : SendMarkdown(ok)
    \/ \E ok \in BOOLEAN : SendPlain(ok)

SpecOutput == InitOutput /\ [][NextOutput]_vars

\* ------------------------------------------------------------------------
\* The recent-action lists: _record_recent
\* ------------------------------------------------------------------------

RecentLimit == 5

\* the names handle_callback and the message handler record
Names == {"git:status", "git:diff", "git:log", "git:undo", "git:commit", "review"}

\* name in lst
In(name, lst) == \E i \in 1..Len(lst) : lst[i] = name

\* a variant that removes nothing
KeepAll(lst, name) == lst

\* lst.remove(name): the first occurrence is taken out
Remove(lst, name) ==
    IF ~In(name, lst) THEN lst
    ELSE LET i == CHOOSE k \in 1..Len(lst) : lst[k] = name /\ \A j \in 1..(k - 1) : lst[j] # name
         IN SubSeq(lst, 1, i - 1) \o SubSeq(lst, i + 1, Len(lst))

\* lst[:n]
Take(lst, n) == SubSeq(lst, 1, IF Len(lst) < n THEN Len(lst) ELSE n)

\* _record_recent(chat_id, name); the history says whether the name was in
\* the list ("moved") or not ("added")
RecordRecent(c, name) ==
    /\ LET lst == recents[c]
           removed == IF In(name, lst) THEN Remove(lst, name) ELSE lst
       IN /\ recents' = [recents EXCEPT ![c] = Take(<<name>> \o removed, RecentLimit)]
          /\ last' = [NoLast EXCEPT !.op = "record", !.arg = name,
                                    !.how = IF In(name, lst) THEN "moved" ELSE "added"]
    /\ UNCHANGED <<sessions, heap, disk, tasks, orphans, calls>>
    /\ UNCHANGED <<run, split, out, owner>>

\* the lists _load_recents finds for the chats at rest
LoadedRecents == {<<>>, <<"review">>, <<"git:log", "review">>}

InitRecents ==
    /\ disk = [c \in Chats |-> to_dict(Session("h1", 0, 1))]
    /\ sessions = [c \in Chats |-> LoadObj(disk, c)]
    /\ heap = [o \in Objs |->
                 IF \E c \in Chats : LoadObj(disk, c) = o THEN from_dict(disk[1])
                 ELSE Session(None, 0, 0)]
    /\ tasks = [t \in Tasks |-> IdleTask]
    /\ orphans = [c \in Chats |-> 0]
    /\ calls = 0
    /\ last = NoLast
    /\ run = RunOff
    /\ split = SplitOff
    /\ out = OutOff
    /\ recents \in [Chats -> LoadedRecents]
    /\ \A c \in Active : recents[c] = <<>>
    /\ owner = OwnerOff

NextRecents == \E c \in Active, name \in Names : RecordRecent(c, name)

SpecRecents == InitRecents /\ [][NextRecents]_vars

\* ------------------------------------------------------------------------
\* The pending action: the sk: and git: buttons of handle_callback and
\* handle_message
\* ------------------------------------------------------------------------

MaxMessages == 2     \* text messages handled in one behaviour of SpecSkill

SkillNames == {"review"}          \* the skills of the sk: buttons
GitInputs == {"commit", "stash"}  \* the git: buttons that ask for input
MessageTexts == {"fix it", "wip"} \* the text of a message

\* str.strip() of a string
RECURSIVE str_strip(_)
str_strip(text) ==
    IF Len(text) = 0 THEN text
    ELSE IF Head(text) = " " THEN str_strip(Tail(text))
    ELSE IF SubSeq(text, Len(text), Len(text)) = " "
    THEN str_strip(SubSeq(text, 1, Len(text) - 1))
    ELSE text

\* skill.startswith("git:")
IsGit(skill) == Len(skill) >= 4 /\ SubSeq(skill, 1, 4) = "git:"

\* git_prompts.get(action, text), action = skill[4:]; the backquotes of the
\* templates are written as quotes
GitPrompt(skill, text) ==
    LET action == SubSeq(skill, 5, Len(skill)) IN
    IF action = "commit" THEN str_strip("/commit " \o text)
    ELSE IF action = "branch"
    THEN IF str_strip(text) # ""
         THEN "Switch to (or create) branch '" \o text \o "' and show result."
         ELSE "Run 'git branch -a' and show the output."
    ELSE IF action = "stash" THEN "Run 'git stash " \o text \o "' and show result."
    ELSE IF action = "pr" THEN str_strip("Create a pull request. " \o text)
    ELSE text

\* the prompt handle_message relays for a message when skill is pending
\* (None: nothing is pending)
MessagePrompt(skill, text) ==
    IF skill = None THEN text
    ELSE IF IsGit(skill) THEN GitPrompt(skill, text)
    ELSE "/" \o skill \o " " \o text

\* a button tap or a message as history: the pending action it found (arg),
\* the text (prompt), what it passed to _relay (argp), whether that passed
\* the gate, and the pending action it leaves (sid)
SkillEvent(op, found, text, p, gated, left) ==
    [NoLast EXCEPT !.op = op, !.arg = found, !.prompt = text, !.argp = p,
                   !.gated = gated, !.sid = left]

\* handle_callback, data = "sk:" + name: the skill is set pending, whether
\* or not the Session is busy
SkillButtonStep(c, name) ==
    /\ GetSessionOk(c)
    /\ LET o == GetSessionObj(c)
       IN /\ Commit(GetSession(c), [heap EXCEPT ![o].pending_skill = name], tasks)
          /\ last' = SkillEvent("select", heap[o].pending_skill, None, None, FALSE, name)
    /\ UNCHANGED <<disk, orphans, calls, recents>>

\* ... tapped by the owner
SkillButton(c, name) ==
    SkillButtonStep(c, name) /\ UNCHANGED <<run, split, out, owner>>

\* handle_callback, data = "git:" + action for an action that needs input:
\* the pending action is cleared, and set to the tag unless the Session is
\* busy
GitInputButton(c, action) ==
    /\ GetSessionOk(c)
    /\ LET o == GetSessionObj(c)
           tag == IF heap[o].busy THEN None ELSE "git:" \o action
       IN /\ Commit(GetSession(c), [heap EXCEPT ![o].pending_skill = tag], tasks)
          /\ last' = SkillEvent("select", heap[o].pending_skill, None, None, FALSE, tag)
    /\ UNCHANGED <<disk, orphans, calls>>
    /\ UNCHANGED <<run, split, out, recents, owner>>

\* handle_callback, data = "cancel"
CancelButton(c) ==
    /\ GetSessionOk(c)
    /\ LET o == GetSessionObj(c)
       IN /\ Commit(GetSession(c), [heap EXCEPT ![o].pending_skill = None], tasks)
          /\ last' = SkillEvent("cancel", heap[o].pending_skill, None, None, FALSE, None)
    /\ UNCHANGED <<disk, orphans, calls>>
    /\ UNCHANGED <<run, split, out, recents, owner>>

\* handle_message up to the gate of _relay: a pending action is taken off
\* the Session and recorded in the recents, and the prompt is relayed
HandleMessageStep(t, c, text) ==
    /\ calls < MaxMessages
    /\ GetSessionOk(c)
    /\ LET o == GetSessionObj(c)
           skill == heap[o].pending_skill
           p == MessagePrompt(skill, text)
           removed == IF In(skill, recents[c]) THEN Remove(recents[c], skill) ELSE recents[c]
       IN /\ RelayGate(t, c, p, FALSE, [heap EXCEPT ![o].pending_skill = None])
          /\ recents' = IF skill = None THEN recents
                        ELSE [recents EXCEPT ![c] = Take(<<skill>> \o removed, RecentLimit)]
          /\ last' = SkillEvent("message", skill, text, p, ~heap[o].busy, None)

\* ... sent by the owner
HandleMessage(t, c, text) ==
    HandleMessageStep(t, c, text) /\ UNCHANGED <<run, split, out, owner>>

NextSkill ==
    \/ \E c \in Active, name \in SkillNames : SkillButton(c, name)
    \/ \E c \in Active, action \in GitInputs : GitInputButton(c, action)
    \/ \E c \in Active : CancelButton(c)
    \/ \E t \in Tasks, c \in Active, text \in MessageTexts : HandleMessage(t, c, text)
    \/ \E t \in Tasks : BusyNotice(t)
    \/ \E t \in Tasks, o \in ChatOutcomes, fate \in ChatFates : RelayRunReturn(t, o, fate)
    \/ \E t \in Tasks, ok \in BOOLEAN : Deliver(t, ok)

SpecSkill == Init /\ [][NextSkill]_vars

\* ------------------------------------------------------------------------
\* The owner: _load_owner, _save_owner and the wrappers _auth and
\* _auth_callback around the handlers
\* ------------------------------------------------------------------------

MaxUpdates == 3      \* updates handled in one behaviour of SpecAuth

Users == {1, 2}      \* Telegram user ids

\* what a wrapper does with an update of user uid: it runs the handler, it
\* answers "Unauthorized." and returns, or _save_owner raises on the write
\* of the file (wrote = FALSE)
AuthOutcome(uid, wrote) ==
    IF owner.id = 0 THEN (IF wrote THEN "run" ELSE "raise")
    ELSE IF uid # owner.id THEN "reject"
    ELSE "run"

\* _auth_callback: nothing is recorded, and without owner every user is let in
AuthCallbackOutcome(uid) ==
    IF owner.id # 0 /\ uid # owner.id THEN "reject" ELSE "run"

\* an update of user uid has gone through a wrapper
Handled(ow, uid, outcome) ==
    [ow EXCEPT !.n = @ + 1, !.uid = uid,
               !.reply = IF outcome = "reject" THEN "Unauthorized." ELSE "none"]

\* _save_owner(uid): the global is set, then the file is written
SaveOwner(ow, uid, wrote) ==
    [ow EXCEPT !.id = uid, !.file = IF wrote THEN uid ELSE @,
               !.first = IF @ = 0 THEN uid ELSE @]

\* _auth(handle_message): a text message of user uid
AuthMessage(t, c, uid, text, wrote) ==
    /\ owner.n < MaxUpdates
    /\ owner.id # 0 => wrote
    /\ LET outcome == AuthOutcome(uid, wrote)
           ow == IF owner.id = 0 THEN SaveOwner(owner, uid, wrote) ELSE owner
       IN /\ owner' = Handled(ow, uid, outcome)
          /\ IF outcome = "run" THEN HandleMessageStep(t, c, text)
             ELSE UNCHANGED <<relayVars, recents>>
    /\ UNCHANGED <<run, split, out>>

\* _auth_callback(handle_callback): user uid taps the button of a skill
AuthSkillButton(c, uid, name) ==
    /\ owner.n < MaxUpdates
    /\ LET outcome == AuthCallbackOutcome(uid)
       IN /\ owner' = Handled(owner, uid, outcome)
          /\ IF outcome = "run" THEN SkillButtonStep(c, name)
             ELSE UNCHANGED <<relayVars, recents>>
    /\ UNCHANGED <<run, split, out>>

\* the process is started again: _load_owner and _load_sessions read the
\* files, no coroutine is left
Restart ==
    /\ owner' = [owner EXCEPT !.id = owner.file, !.uid = 0, !.reply = "none"]
    /\ sessions' = [c \in Chats |-> LoadObj(disk, c)]
    /\ heap' = [o \in Objs |->
                  IF \E c \in Chats : LoadObj(disk, c) = o
                  THEN from_dict(disk[CHOOSE c \in Chats : LoadObj(disk, c) = o])
                  ELSE Session(None, 0, 0)]
    /\ tasks' = [t \in Tasks |-> IdleTask]
    /\ last' = NoLast
    /\ UNCHANGED <<disk, orphans, calls, recents>>
    /\ UNCHANGED <<run, split, out>>

\* as Init, with no owner yet or with user 1 loaded from the file
InitAuth ==
    /\ disk \in [Chats -> InitRecords]
    /\ \A c \in Chats \ Active : disk[c].present
    /\ sessions = [c \in Chats |-> LoadObj(disk, c)]
    /\ heap = [o \in Objs |->
                 IF \E c \in Chats : LoadObj(disk, c) = o
                 THEN from_dict(disk[CHOOSE c \in Chats : LoadObj(disk, c) = o])
                 ELSE Session(None, 0, 0)]
    /\ tasks = [t \in Tasks |-> IdleTask]
    /\ orphans = [c \in Chats |-> 0]
    /\ calls = 0
    /\ last = NoLast
    /\ run = RunOff
    /\ split = SplitOff
    /\ out = OutOff
    /\ recents = RecentsOff
    /\ owner \in {Owner(0), Owner(1)}

NextAuth ==
    \/ \E t \in Tasks, c \in Active, uid \in Users, text \in {"fix it"}, wrote \in BOOLEAN :
          AuthMessage(t, c, uid, text, wrote)
    \/ \E c \in Active, uid \in Users, name \in SkillNames : AuthSkillButton(c, uid, name)
    \/ Restart
    \/ \E t \in Tasks : BusyNotice(t)
    \/ \E t \in Tasks, o \in ChatOutcomes, fate \in ChatFates : RelayRunReturn(t, o, fate)
    \/ \E t \in Tasks, ok \in BOOLEAN : Deliver(t, ok)

SpecAuth == InitAuth /\ [][NextAuth]_vars

\* ------------------------------------------------------------------------
\* Properties
\* ------------------------------------------------------------------------

\* a relay coroutine that has passed the gate and has not left
InFlight(t) == tasks[t].kind = "relay" /\ tasks[t].gated

\* the step just taken ended a relay call that had passed the gate
RelayLeft ==
    /\ last.kind = "relay" /\ last.gated
    /\ last.op = "leave" \/ (last.op = "update" /\ last.how = "raise")

\* the step just taken ran the code after a relay's last invocation
RelayUpdated == last.kind = "relay" /\ last.op = "update"

\* C1: in every reachable state, every chat has at most one child process
\* that has been spawned for it and has not terminated.
C1_SingleFlight == \A c \in Chats : Live(c) <= 1

\* C2: a relay call issued while another relay call of the same chat has
\* passed the gate and not returned is rejected, so no two relay calls of one
\* chat are past the gate at once.
C2_SecondRelayRejected ==
    \A t1, t2 \in Tasks :
        InFlight(t1) /\ InFlight(t2) /\ tasks[t1].chat = tasks[t2].chat => t1 = t2

\* C3: when a relay call that passed the gate returns, raises or is
\* cancelled, the busy flag of the chat's Session is false.
C3_BusyFalseWhenRelayLeaves == RelayLeft => ~last.flag

\* C4: the second invocation of a relay is started only after a first
\* invocation with a resume handle returned an error that is no timeout, it
\* gets no resume handle and the same prompt; such a first result is never
\* the relay's final one; and no relay makes a third invocation.
C4_OneRetryWithoutHandle ==
    /\ last.op = "retry" =>
          /\ last.sid # None /\ last.result.is_error /\ ~last.result.timed_out
          /\ last.arg = None /\ last.argp = last.prompt /\ last.spawned = 2
    /\ RelayUpdated /\ last.spawned = 1 /\ last.sid # None =>
          ~(last.result.is_error /\ ~last.result.timed_out)
    /\ \A t \in Tasks : tasks[t].kind = "relay" => tasks[t].spawned <= 2

\* the retry failed too: the relay ends with two invocations made
C4_RetryFailedToo == RelayUpdated /\ last.spawned = 2 /\ last.result.is_error

C7_HandleChangesOnlyOnOk ==
    RelayUpdated /\ last.result.is_error => last.after.session_id = last.before.session_id

\* C8: a relay writes and saves the Session exactly when its final result is
\* no error and carries a handle; after an error or a timeout the Session's
\* handle, created_at and message_count are as before and nothing is saved.
C8_CountAndSaveIffOk ==
    RelayUpdated =>
        /\ last.wrote <=> (~last.result.is_error /\ last.result.session_id # None)
        /\ last.result.is_error => last.after = last.before /\ ~last.saved

\* C9: a running child whose latest 7 readings are equal has been killed by
\* the watchdog.
C9_KilledAfterSevenEqualSamples == run.same >= 7 => run.proc # "running"

\* C10: the watchdog has killed the child only if its timer exceeds
\* STALE_TIMEOUT and every reading since the timer was started equalled the
\* one before it.
C10_KilledOnlyWhenStale ==
    run.proc = "killed by watchdog" =>
        /\ run.stale_since # -1
        /\ run.clock - run.stale_since > STALE_TIMEOUT
        /\ run.timer_run >= 1
        /\ run.same >= run.timer_run + 1

\* the watchdog has killed the child
C10_WatchdogKilled == run.proc = "killed by watchdog"

\* the step just taken ended a handler that had set busy, relay or compaction
HandlerLeft ==
    /\ last.gated
    /\ last.op = "leave" \/ (last.op = "update" /\ last.how = "raise")

\* C11: when a relay or compaction call returns, raises or is cancelled,
\* neither its typing task nor the watchdog of its last run_claude call is
\* still running; and a coroutine that is not awaiting run_claude has no
\* running watchdog.
C11_NoTaskSurvives ==
    /\ HandlerLeft => last.typing # "running" /\ last.watchdog # "running"
    /\ \A t \in Tasks : tasks[t].pc \notin RunPcs => tasks[t].watchdog # "running"

\* a relay was cancelled while it awaited run_claude, typing task and
\* watchdog having been started
C11_CancelledInRun ==
    /\ last.kind = "relay" /\ last.op = "leave" /\ last.how = "cancel"
    /\ last.typing = "ended" /\ last.watchdog = "ended"

\* C11, in time: once run_claude has returned its watchdog is cancelled or
\* has returned, and a watchdog that wakes to find the child gone returns.
C11_WatchdogStopped == run.pc = "returned" => run.wd \in {"cancelled", "returned"}

\* C12: when run_claude has returned and the child had neither exited nor
\* been killed by the watchdog, the deadline has been reached, the child has
\* been killed and the result is the timed_out dict that carries the
\* timeout; a result that is Ok or an error means the child had ended by
\* itself or through the watchdog.
C12_DeadlineKillsAndTimesOut ==
    run.pc = "returned" =>
        /\ run.proc \in {"exited", "killed by watchdog", "killed at deadline"}
        /\ run.proc = "killed at deadline" <=> run.result = "timeout"
        /\ run.result = "timeout" => run.after = run.timeout /\ run.clock = run.timeout

\* run_claude returned at the deadline
C12_ReturnedAtDeadline == run.pc = "returned" /\ run.result = "timeout"

\* n newline characters
Newlines(n) == [i \in 1..n |-> "\n"]

\* the first n chunks, each followed by the newlines dropped at its cut
RECURSIVE Rejoin(_, _, _)
Rejoin(chunks, seps, n) ==
    IF n = 0 THEN <<>>
    ELSE Rejoin(chunks, seps, n - 1) \o chunks[n]
         \o (IF n <= Len(seps) THEN Newlines(seps[n]) ELSE <<>>)

\* C13: every pass through the cutting loop leaves the remaining text
\* shorter than it found it.
C13_EachCutShortens == Len(split.chunks) > 0 /\ split.pc = "loop" => Len(split.text) < split.before

\* C14: every chunk has at most limit characters.
C14_ChunksWithinLimit ==
    \A i \in 1..Len(split.chunks) : Len(split.chunks[i]) <= split.limit

\* a text was split in several chunks, one of them of limit characters
C14_SplitInFullChunks ==
    /\ split.pc = "done" /\ Len(split.chunks) >= 2
    /\ \E i \in 1..Len(split.chunks) : Len(split.chunks[i]) = split.limit

Compacting(t) == tasks[t].kind \in {"compact", "compact_cb"}

C17_ReplaceOnlyAfterSuccess ==
    /\ last.op = "summary" /\ last.result.is_error => last.spawned = 1
    /\ last.op = "replace" /\ last.result.is_error =>
          /\ last.after.session_id = last.before.session_id
          /\ last.after.message_count = last.before.message_count

C19_BusyThroughCompaction ==
    \A t \in Tasks :
        Compacting(t) /\ tasks[t].pc \in {"summary", "fresh"} =>
            ChatBusy(tasks[t].chat, sessions, heap)

\* C20: a relay whose last invocation exited 0 with output that is no JSON
\* gets a success without handle and does not write the Session.
C20_RawOutputNoHandle ==
    RelayUpdated /\ last.outcome = "text" =>
        /\ ~last.result.is_error /\ last.result.session_id = None
        /\ ~last.wrote /\ last.after = last.before

\* C21: a chat that has a Session in memory has a record in the file, so the
\* Session _get_session creates for a chat without record is saved.
C21_CreatedSessionPersisted == \A c \in Chats : sessions[c] # 0 => disk[c].present

\* the keys of a record of the file (present: the chat id is a key of the file)
RecordKeys == {"present", "session_id", "created_at", "message_count"}

\* C22: every record of the file has the keys session_id, created_at and
\* message_count and no other, and the Session loaded from it is not busy
\* and has no pending action.
C22_OnlyThreeFieldsDurable ==
    \A c \in Chats :
        /\ DOMAIN disk[c] = RecordKeys
        /\ disk[c].present =>
              ~from_dict(disk[c]).busy /\ from_dict(disk[c]).pending_skill = None

\* the file was written while the Session of the chat was busy
C22_SavedWhileBusy ==
    /\ last.op = "update" /\ last.saved /\ last.busy
    /\ \E c \in Active : ChatBusy(c, sessions, heap) /\ disk[c].present

\* C25: a relay whose durable write fails ends there by raising: the write
\* is not made, the coroutine ends without another invocation, its typing
\* task is stopped and its Session is not busy.
C25_SaveFailureIsFatal ==
    last.op = "update" /\ last.wrote /\ ~last.saved =>
        last.how = "raise" /\ ~last.busy /\ last.typing = "ended"

\* the write of a relay's session update failed
C25_WriteFailed ==
    last.op = "update" /\ last.wrote /\ ~last.saved /\ last.how = "raise"

\* the step pops the Session of chat c: /clear or the ses:clear button
ClearStep(c) ==
    calls' = calls + 1 /\ tasks' = tasks /\ sessions[c] # 0 /\ sessions'[c] = 0

\* C23: a clear of chat c leaves the file without record for c and with the
\* records of the other chats as they were, and leaves c without Session in
\* memory, so the next access creates an empty one.
C23_ClearDropsOnlyOwnRecord ==
    [][\A c \in Chats :
          ClearStep(c) =>
              /\ ~disk'[c].present /\ sessions'[c] = 0
              /\ \A b \in Chats \ {c} : disk'[b] = disk[b]]_vars

\* the step is one of a relay coroutine in slot t
RelayStep(t) == tasks'[t] # tasks[t] /\ "relay" \in {tasks[t].kind, tasks'[t].kind}

\* C24: a step of a relay for chat c leaves the Session object of every other
\* chat as it was, and a relay call is rejected exactly when the Session of
\* its own chat is busy.
C24_ChatsIndependent ==
    [][\A t \in Tasks :
          RelayStep(t) =>
              LET c == IF tasks[t].kind = "relay" THEN tasks[t].chat ELSE tasks'[t].chat
              IN /\ \A b \in Chats \ {c} :
                        sessions'[b] = 0 \/ sessions[b] = 0 \/
                            heap'[sessions'[b]] = heap[sessions[b]]
                 /\ \A b \in Chats \ {c} : (sessions'[b] = 0) = (sessions[b] = 0)
                 /\ tasks[t] = IdleTask =>
                        (tasks'[t].pc = "notice" <=> ChatBusy(c, sessions, heap))]_vars

\* invocations for both chats are in flight at the same time
C24_BothChatsInFlight ==
    \E t1, t2 \in Tasks :
        /\ tasks[t1].chat = 1 /\ tasks[t1].pc \in RunPcs
        /\ tasks[t2].chat = 2 /\ tasks[t2].pc \in RunPcs

\* the sends of the delivery loop that were accepted
Accepted == SelectSeq(out.log, LAMBDA e : e.ok)

\* C26: the accepted sends are the chunks in split order, each once; a
\* rejected Markdown send is followed at once by the plain send of the same
\* chunk, and there is no other plain send; a loop that ends has delivered
\* every chunk.
C26_ChunksInOrderWithFallback ==
    out.fn = "deliver" =>
        /\ Len(Accepted) <= Len(out.chunks)
        /\ \A j \in 1..Len(Accepted) : Accepted[j].i = j /\ Accepted[j].chunk = out.chunks[j]
        /\ \A p \in 1..Len(out.log) :
               LET e == out.log[p] IN
               /\ e.mode = "Markdown" /\ ~e.ok =>
                      IF p = Len(out.log) THEN out.pc = "plain"
                      ELSE /\ out.log[p + 1].mode = "plain"
                           /\ out.log[p + 1].i = e.i /\ out.log[p + 1].chunk = e.chunk
               /\ e.mode = "Markdown" /\ e.ok /\ p < Len(out.log) => out.log[p + 1].i = e.i + 1
               /\ e.mode = "plain" =>
                      p > 1 /\ out.log[p - 1] = [e EXCEPT !.mode = "Markdown", !.ok = FALSE]
        /\ out.pc = "done" => Len(Accepted) = Len(out.chunks)

\* a response of several chunks was delivered, one of them as plain text
C26_DeliveredWithFallback ==
    /\ out.fn = "deliver" /\ out.pc = "done" /\ Len(out.chunks) >= 2
    /\ \E p \in 1..Len(out.log) : out.log[p].mode = "plain"
    /\ \E p \in 1..Len(out.log) : out.log[p].mode = "Markdown" /\ out.log[p].ok

\* the result is an error for _format_result
IsErr(data) == "is_error" \in data.keys /\ data.is_error

\* C27: the display text is never empty; for an error it is the marker and
\* the message; for a success without text it is the done message; for a
\* success with text it is the text, with something after it exactly when
\* the result has a cost, a turn count or a duration.
C27_FormatByCase ==
    out.fn = "format" /\ out.pc = "formatted" =>
        LET data == out.data
            text == out.text
            result == Get(data, "result", <<>>)
        IN /\ text # <<>>
           /\ IsErr(data) =>
                 /\ Head(text) = ErrorMarker
                 /\ "result" \in data.keys => Tail(text) = data.result
           /\ ~IsErr(data) /\ result = <<>> => text = DoneNoOutput
           /\ ~IsErr(data) /\ result # <<>> =>
                 /\ SubSeq(text, 1, Len(result)) = result
                 /\ Len(text) > Len(result) <=>
                        data.keys \cap {"cost_usd", "num_turns", "duration_ms"} # {}

\* no entry twice
NoDuplicate(lst) == \A i, j \in 1..Len(lst) : lst[i] = lst[j] => i = j

\* the entries of lst other than name, in their order
Others(lst, name) == SelectSeq(lst, LAMBDA x : x # name)

\* C30: every list has at most 5 entries and no entry twice; a recording
\* changes the list of one chat only and puts the name at its front; a name
\* that was in the list leaves the length and the order of the others as
\* they were, a new name is put before the entries that were there, of
\* which the last is dropped when there were 5.
C30_RecentListBounded ==
    /\ [](\A c \in Chats : Len(recents[c]) <= 5 /\ NoDuplicate(recents[c]))
    /\ [][last'.op = "record" =>
            \E c \in Chats :
                LET old == recents[c]
                    new == recents'[c]
                    name == last'.arg
                IN /\ \A b \in Chats \ {c} : recents'[b] = recents[b]
                   /\ new # <<>> /\ new[1] = name
                   /\ In(name, old) =>
                          Len(new) = Len(old) /\ Others(new, name) = Others(old, name)
                   /\ ~In(name, old) =>
                          /\ Len(new) = (IF Len(old) < 5 THEN Len(old) + 1 ELSE 5)
                          /\ Tail(new) = SubSeq(old, 1, Len(new) - 1)]_vars

\* an entry of a full list that was not at the front was recorded again
C30_MovedToFrontOfFullList ==
    /\ last.op = "record" /\ last.how = "moved"
    /\ \E c \in Active : Len(recents[c]) = 5 /\ recents[c][1] = last.arg

\* C31: a handler call that arrives while the chat's Session is busy leaves
\* the chat's handle, created_at and message_count and its record in the
\* file as they were, and starts no compaction.
C31_BusyChatNotChangedByCommands ==
    [][\A c \in Active :
          ChatBusy(c, sessions, heap) /\ calls' = calls + 1 =>
              /\ ChatFields(c, sessions', heap') = ChatFields(c, sessions, heap)
              /\ disk'[c] = disk[c]
              /\ \A t \in Tasks :
                     tasks[t] = IdleTask /\ tasks'[t].kind \in {"compact", "compact_cb"} =>
                         tasks'[t].pc \notin RunPcs]_vars

\* C32: when a relay has stored the handle of its successful last invocation
\* and goes on to deliver, the Session the chat is bound to and the chat's
\* record in the file carry that handle.
C32_NewHandleSurvivesInterleaving ==
    RelayUpdated /\ last.how = "continue" /\ ~last.result.is_error
        /\ last.result.session_id # None =>
            \A c \in Active :
                /\ sessions[c] # 0 /\ heap[sessions[c]].session_id = last.result.session_id
                /\ disk[c].present /\ disk[c].session_id = last.result.session_id

C34_NoChildOutlivesRun == \A c \in Chats : orphans[c] = 0

\* C35: a relay call that has passed the gate ends, the busy flag of a busy
\* chat becomes false, and no call makes more than two invocations.
C35_GatedRelayReturns ==
    /\ \A t \in Tasks : InFlight(t) ~> tasks[t] = IdleTask
    /\ \A c \in Active : ChatBusy(c, sessions, heap) ~> ~ChatBusy(c, sessions, heap)
    /\ [](\A t \in Tasks : tasks[t].spawned <= 2)

\* a relay whose child never exited by itself got its result at the deadline
C35_ReturnedByDeadline ==
    RelayUpdated /\ last.outcome = "deadline" /\ last.how = "continue" /\ run = RunOff

\* prompt is the text with the words of an action before it (the git
\* templates also close their sentence after it)
Prefixed(prompt, text) ==
    \E i \in 2..Len(prompt) : SubSeq(prompt, i, i + Len(text) - 1) = text

\* C36: a pending action is applied to the next text message of the chat and
\* then cleared: the message that finds an action pending is relayed to the
\* agent with the action's words before its text, a message that finds none
\* is relayed verbatim, and the pending action is null after the handler's
\* step
C36_PendingAppliedToNextMessage ==
    last.op = "message" =>
        /\ last.arg # None => last.gated /\ Prefixed(last.argp, last.prompt)
        /\ last.arg = None /\ last.gated => last.argp = last.prompt
        /\ \A c \in Active : sessions[c] # 0 /\ heap[sessions[c]].pending_skill = None

\* C37: once an owner id is recorded it never changes, and from then on an
\* update of another user gets the unauthorized reply and runs no handler:
\* no Session, file record or recents list changes and no child is spawned
C37_OwnerFixedOthersRejected ==
    [][/\ owner'.id # 0 => owner'.id = owner'.first
       /\ owner.id # 0 /\ owner'.n = owner.n + 1 /\ owner'.uid # owner.id =>
             /\ owner'.reply = "Unauthorized."
             /\ owner'.id = owner.id
             /\ UNCHANGED <<sessions, heap, disk, tasks, orphans, calls, recents>>]_vars

\* 1 for TRUE, 0 for FALSE
Count(b) == IF b THEN 1 ELSE 0

\* C28: the argument vector of every spawn is the five fixed arguments with
\* the prompt third, then --resume and the handle exactly when a handle is
\* given, then --model and the model exactly when one is configured, then
\* --dangerously-skip-permissions exactly when the setting is "1".
C28_ArgumentVector ==
    out.fn = "run" /\ out.pc # "start" =>
        LET cmd == out.cmd
            given == Truthy(out.sid)
            conf == Truthy(out.model)
            on == out.skip = "1"
            n == 5 + 2 * Count(given) + 2 * Count(conf) + Count(on)
        IN /\ Len(cmd) = n
           /\ SubSeq(cmd, 1, 5) = <<CLAUDE_BIN, "-p", out.prompt, "--output-format", "json">>
           /\ given => cmd[6] = "--resume" /\ cmd[7] = out.sid
           /\ conf => /\ cmd[6 + 2 * Count(given)] = "--model"
                       /\ cmd[7 + 2 * Count(given)] = out.model
           /\ on => cmd[n] = "--dangerously-skip-permissions"

\* a child was spawned with a resume handle, a model and the permission skip
C28_SpawnedWithAllOptions == out.fn = "run" /\ Len(out.cmd) = 10

\* C29: a call whose child exited non-zero returns an error whose message
\* is stderr when stderr is not empty, else stdout when stdout is not
\* empty, else the exit code.
C29_NonZeroExitIsAgentError ==
    out.fn = "run" /\ out.pc \in {"returned", "raised"} /\ out.rc # 0 =>
        /\ out.pc = "returned" /\ out.result.is_error
        /\ out.result.result =
              IF out.stderr # <<>> THEN out.stderr
              ELSE IF out.stdout # <<>> THEN out.stdout
              ELSE ExitCodeText(out.rc)

====
